---- MODULE Spec2Model ----
(***************************************************************************)
(* Deduplication core of data_governance: HashDeduplicator,                *)
(* SemanticDeduplicator and DedupEngine, run against a ChromaDB            *)
(* collection.                                                             *)
(*                                                                         *)
(* Conventions.  A Python list is a sequence; list positions are kept as   *)
(* Python's 0-based indices wherever the code stores or prints them.  An   *)
(* optional argument (ids, metadatas, threshold) that the code reads with  *)
(* `x or default` is <<>> when it is None or empty.  A text is a sequence  *)
(* of one-character strings.  A metadata value is a record: none = TRUE is *)
(* Python's None, otherwise kv is the dict's set of key/value pairs.  An   *)
(* embedding is a tuple of integers.  A function that can raise returns a  *)
(* record whose field raised names the exception ("" when it returns).     *)
(***************************************************************************)
EXTENDS Integers, Sequences, FiniteSets, TLC

VARIABLES
    store,      \* the collection: sequence of items, in the order get() returns them
    runs,       \* per caller: the state of its dedup_chromadb_collection / deduplicate_chromadb call
    call,       \* the direct call of a pure function: its arguments and its result
    config      \* the GovernanceConfig the deduplicators and the engine were built with

vars == <<store, runs, call, config>>

\* ------------------------------------------------------------------ bounds

MaxItems == 3       \* most items in a direct call of find_duplicates or full_dedup
MaxEmbeddings == 4  \* most embeddings in a direct call of find_near_duplicates
MaxStore == 3       \* most items in the initial collection

\* the values of config.dedup.batch_size tried (the default is 100)
BatchSizes == {1, 2}

\* config.dedup.semantic_threshold, in hundredths
semantic_threshold == 95

\* ------------------------------------------------------------------ texts

SP == " "
TAB == "\t"

IsSpace(c) == c \in {SP, TAB}

Min(a, b) == IF a <= b THEN a ELSE b

RECURSIVE lstrip(_)
lstrip(text) ==
    IF text = <<>> THEN <<>>
    ELSE IF IsSpace(Head(text)) THEN lstrip(Tail(text))
    ELSE text

RECURSIVE rstrip(_)
rstrip(text) ==
    IF text = <<>> THEN <<>>
    ELSE IF IsSpace(text[Len(text)]) THEN rstrip(SubSeq(text, 1, Len(text) - 1))
    ELSE text

strip(text) == rstrip(lstrip(text))

\* re.sub(r"\s+", " ", text): every maximal whitespace run becomes one space
RECURSIVE collapse_ws(_)
collapse_ws(text) ==
    IF text = <<>> THEN <<>>
    ELSE IF IsSpace(Head(text)) THEN <<SP>> \o collapse_ws(lstrip(Tail(text)))
    ELSE <<Head(text)>> \o collapse_ws(Tail(text))

\* a plausible slip: trims but leaves inner whitespace runs alone
normalize_strip_only(text) == strip(text)

_normalize(text) == collapse_ws(strip(text))

CharCode(c) ==
    CASE c = "a" -> 1
      [] c = "b" -> 2
      [] c = "c" -> 3
      [] c = SP -> 4
      [] c = TAB -> 5

\* xxh64(text).hexdigest(): a fixed function of the characters, taken as free of
\* collisions over the bounded texts; modelled as the text's base-8 numeral.
RECURSIVE text_code(_)
text_code(text) ==
    IF text = <<>> THEN 0
    ELSE 8 * text_code(SubSeq(text, 1, Len(text) - 1)) + CharCode(text[Len(text)])

content_hash(text) == ToString(text_code(text))

\* ------------------------------------------------------------------ results

\* DedupResult(total_items = n): the other fields at their defaults
DedupResult(n) ==
    [raised |-> "", total_items |-> n, unique_items |-> 0,
     duplicate_groups |-> <<>>, removed_ids |-> <<>>]

Raised(exc) ==
    [raised |-> exc, total_items |-> 0, unique_items |-> 0,
     duplicate_groups |-> <<>>, removed_ids |-> <<>>]

duplicate_count(result) == result.total_items - result.unique_items

\* [f(x) for x in seq]-style helpers
RECURSIVE Concat(_)
Concat(seqs) == IF seqs = <<>> THEN <<>> ELSE Head(seqs) \o Concat(Tail(seqs))

RECURSIVE SelectIdx(_, _, _)
\* the positions k of 1..n, in increasing order, with Keep[k]
SelectIdx(n, Keep, k) ==
    IF k > n THEN <<>>
    ELSE (IF Keep[k] THEN <<k>> ELSE <<>>) \o SelectIdx(n, Keep, k + 1)

Range(seq) == {seq[k] : k \in 1..Len(seq)}

\* f"item_{i}" for i in range(n)
item_ids(n) == [k \in 1..n |-> "item_" \o ToString(k - 1)]

EmptyMeta == [none |-> FALSE, kv |-> {}]
NoneMeta == [none |-> TRUE, kv |-> {}]

\* ------------------------------------------------------------------ hash phase

\* the loop's best_idx after the members from position k on (1-based) are seen
RECURSIVE select_keep_from(_, _, _, _)
select_keep_from(group, k, best_idx, best_meta_count) ==
    IF k > Len(group) THEN best_idx
    ELSE LET meta_count == Cardinality(group[k].meta.kv) IN
         IF meta_count > best_meta_count
         THEN select_keep_from(group, k + 1, k - 1, meta_count)
         ELSE select_keep_from(group, k + 1, best_idx, best_meta_count)

\* ">=" for ">": among the members with the most metadata the last one wins
RECURSIVE select_keep_last_from(_, _, _, _)
select_keep_last_from(group, k, best_idx, best_meta_count) ==
    IF k > Len(group) THEN best_idx
    ELSE LET meta_count == Cardinality(group[k].meta.kv) IN
         IF meta_count >= best_meta_count
         THEN select_keep_last_from(group, k + 1, k - 1, meta_count)
         ELSE select_keep_last_from(group, k + 1, best_idx, best_meta_count)

_select_keep_last(group) == select_keep_last_from(group, 1, 0, 0)

\* the 0-based index, in the group, of the member to keep
_select_keep(group) == select_keep_from(group, 1, 0, 0)

\* len(meta) of a None metadata raises TypeError
select_keep_raises(group) == \E k \in 1..Len(group) : group[k].meta.none

\* hash_groups[h].append((item_id, i, meta)), the dict kept in insertion order
hash_groups_add(hash_groups, h, entry) ==
    IF \E k \in 1..Len(hash_groups) : hash_groups[k].h = h
    THEN [k \in 1..Len(hash_groups) |->
            IF hash_groups[k].h = h
            THEN [hash_groups[k] EXCEPT !.group = Append(@, entry)]
            ELSE hash_groups[k]]
    ELSE Append(hash_groups, [h |-> h, group |-> <<entry>>])

\* the dict after the first k iterations of the loop over zip(contents, ids, metadatas)
RECURSIVE hash_groups_after(_, _, _, _, _)
hash_groups_after(contents, ids, metadatas, norm, k) ==
    IF k = 0 THEN <<>>
    ELSE LET text == IF norm THEN _normalize(contents[k]) ELSE contents[k]
             h == content_hash(text)
         IN  hash_groups_add(hash_groups_after(contents, ids, metadatas, norm, k - 1),
                             h, [item_id |-> ids[k], i |-> k - 1, meta |-> metadatas[k]])

\* result.removed_ids.extend(dup_group.ids): the keepers listed for removal too
removed_ids_all_members(groups) == Concat([x \in 1..Len(groups) |-> groups[x].ids])

\* result.removed_ids after extend(dup_group.remove_ids) for every group
removed_ids_of(groups) == Concat([x \in 1..Len(groups) |-> groups[x].remove_ids])

\* unique_count incremented only for the buckets that are duplicate groups
unique_count_dups_only(hash_groups) ==
    Cardinality({k \in 1..Len(hash_groups) : Len(hash_groups[k].group) > 1})

\* unique_count after the loop over hash_groups: one per bucket
unique_count_of(hash_groups) == Len(hash_groups)

\* a bucket of one item reported as a group too
is_dup_bucket_any(group) == Len(group) >= 1

\* len(group) > 1
is_dup_bucket(group) == Len(group) > 1

\* the DuplicateGroup built for one bucket of more than one item
dup_group_of(bucket) ==
    LET group == bucket.group
        keep_idx == _select_keep(group)
    IN  [hash_value |-> bucket.h,
         ids |-> [j \in 1..Len(group) |-> group[j].item_id],
         keep_id |-> group[keep_idx + 1].item_id,
         remove_ids |->
            LET js == SelectIdx(Len(group), [j \in 1..Len(group) |-> j - 1 # keep_idx], 1)
            IN  [x \in 1..Len(js) |-> group[js[x]].item_id]]

find_duplicates(contents, ids_arg, metadatas_arg, norm) ==
    LET ids == IF ids_arg # <<>> THEN ids_arg ELSE item_ids(Len(contents))
        metadatas == IF metadatas_arg # <<>> THEN metadatas_arg
                     ELSE [k \in 1..Len(contents) |-> EmptyMeta]
        zipped == Min(Len(contents), Min(Len(ids), Len(metadatas)))
        hash_groups == hash_groups_after(contents, ids, metadatas, norm, zipped)
        dups == SelectIdx(Len(hash_groups),
                          [k \in 1..Len(hash_groups) |-> is_dup_bucket(hash_groups[k].group)], 1)
        groups == [x \in 1..Len(dups) |-> dup_group_of(hash_groups[dups[x]])]
    IN  IF \E x \in 1..Len(dups) : select_keep_raises(hash_groups[dups[x]].group)
        THEN Raised("TypeError")
        ELSE [DedupResult(Len(contents)) EXCEPT
                !.unique_items = unique_count_of(hash_groups),
                !.duplicate_groups = groups,
                !.removed_ids = removed_ids_of(groups)]

\* ------------------------------------------------------------------ semantic phase

Dot(u, v) ==
    LET RECURSIVE dot_to(_)
        dot_to(k) == IF k = 0 THEN 0 ELSE dot_to(k - 1) + u[k] * v[k]
    IN  dot_to(Len(u))

\* normalized[i] @ normalized[j] >= threshold, the threshold p in hundredths, in
\* exact arithmetic: a zero vector is divided by 1 and stays zero.
sim_ge(u, v, p) ==
    IF Dot(u, u) = 0 \/ Dot(v, v) = 0 THEN 0 >= p
    ELSE LET d == Dot(u, v)
             nn == Dot(u, u) * Dot(v, v)
         IN  IF p >= 0 THEN d >= 0 /\ d * d * 10000 >= p * p * nn
             ELSE d >= 0 \/ d * d * 10000 <= p * p * nn

\* find(x) with path halving: the parent array it leaves and the root it returns
RECURSIVE find(_, _)
find(parent, x) ==
    IF parent[x] = x THEN [parent |-> parent, root |-> x]
    ELSE LET halved == [parent EXCEPT ![x] = parent[parent[x]]]
         IN  find(halved, halved[x])

\* union that links the item itself instead of its root
union_no_root(parent, x, y) == [parent EXCEPT ![x] = y]

union(parent, x, y) ==
    LET fx == find(parent, x)
        fy == find(fx.parent, y)
    IN  IF fx.root # fy.root THEN [fy.parent EXCEPT ![fx.root] = fy.root]
        ELSE fy.parent

\* for j in range(j, n): if sim_matrix[bi, j] >= threshold: union(global_i, j)
RECURSIVE scan_row(_, _, _, _, _)
scan_row(parent, embeddings, threshold, global_i, j) ==
    IF j >= Len(embeddings) THEN parent
    ELSE scan_row(IF sim_ge(embeddings[global_i + 1], embeddings[j + 1], threshold)
                  THEN union(parent, global_i, j) ELSE parent,
                  embeddings, threshold, global_i, j + 1)

\* each row compared only with the items after its batch: the pairs inside a
\* batch are never looked at
RECURSIVE scan_batch_skip_within(_, _, _, _, _, _)
scan_batch_skip_within(parent, embeddings, threshold, i, bi, batch_end) ==
    IF bi >= batch_end - i THEN parent
    ELSE scan_batch_skip_within(scan_row(parent, embeddings, threshold, i + bi, batch_end),
                                embeddings, threshold, i, bi + 1, batch_end)

\* for bi in range(bi, batch.shape[0]), the batch starting at i
RECURSIVE scan_batch(_, _, _, _, _, _)
scan_batch(parent, embeddings, threshold, i, bi, batch_end) ==
    IF bi >= batch_end - i THEN parent
    ELSE scan_batch(scan_row(parent, embeddings, threshold, i + bi, i + bi + 1),
                    embeddings, threshold, i, bi + 1, batch_end)

\* for i in range(i, n, batch_size)
RECURSIVE scan_batches(_, _, _, _, _)
scan_batches(parent, embeddings, threshold, i, batch_size) ==
    IF i >= Len(embeddings) THEN parent
    ELSE LET batch_end == Min(i + batch_size, Len(embeddings))
         IN  scan_batches(scan_batch(parent, embeddings, threshold, i, 0, batch_end),
                          embeddings, threshold, i + batch_size, batch_size)

\* the pairs (global_i, j) the loop over j reads from sim_matrix, in order
RECURSIVE pairs_row(_, _, _)
pairs_row(n, global_i, j) ==
    IF j >= n THEN <<>>
    ELSE << <<global_i, j>> >> \o pairs_row(n, global_i, j + 1)

\* the pairs read for the rows bi.. of the batch starting at i
RECURSIVE pairs_batch(_, _, _, _)
pairs_batch(n, i, bi, batch_end) ==
    IF bi >= batch_end - i THEN <<>>
    ELSE pairs_row(n, i + bi, i + bi + 1) \o pairs_batch(n, i, bi + 1, batch_end)

\* the pairs read by the batches starting at i, i + batch_size, ...
RECURSIVE pairs_batches(_, _, _)
pairs_batches(n, i, batch_size) ==
    IF i >= n THEN <<>>
    ELSE pairs_batch(n, i, 0, Min(i + batch_size, n))
         \o pairs_batches(n, i + batch_size, batch_size)

\* groups[root].append(i), the dict kept in insertion order
groups_add(groups, root, i) ==
    IF \E k \in 1..Len(groups) : groups[k].root = root
    THEN [k \in 1..Len(groups) |->
            IF groups[k].root = root
            THEN [groups[k] EXCEPT !.members = Append(@, i)]
            ELSE groups[k]]
    ELSE Append(groups, [root |-> root, members |-> <<i>>])

\* for i in range(i, n): root = find(i); groups[root].append(i)
RECURSIVE collect_groups(_, _, _, _)
collect_groups(parent, n, i, groups) ==
    IF i >= n THEN groups
    ELSE LET f == find(parent, i)
         IN  collect_groups(f.parent, n, i + 1, groups_add(groups, f.root, i))

\* keep_id = ids[root]: the union-find root kept instead of the first member
semantic_group_keep_root(g, ids) ==
    LET rest == SelectIdx(Len(g.members),
                          [x \in 1..Len(g.members) |-> g.members[x] # g.root], 1)
    IN  [hash_value |-> "semantic_group_" \o ToString(g.root),
         ids |-> [x \in 1..Len(g.members) |-> ids[g.members[x] + 1]],
         keep_id |-> ids[g.root + 1],
         remove_ids |-> [x \in 1..Len(rest) |-> ids[g.members[rest[x]] + 1]]]

\* remove_ids = group_ids: the first member listed for removal as well
semantic_group_remove_all(g, ids) ==
    [hash_value |-> "semantic_group_" \o ToString(g.root),
     ids |-> [x \in 1..Len(g.members) |-> ids[g.members[x] + 1]],
     keep_id |-> ids[g.members[1] + 1],
     remove_ids |-> [x \in 1..Len(g.members) |-> ids[g.members[x] + 1]]]

\* the DuplicateGroup built for one component of more than one member
semantic_group_of(g, ids) ==
    [hash_value |-> "semantic_group_" \o ToString(g.root),
     ids |-> [x \in 1..Len(g.members) |-> ids[g.members[x] + 1]],
     keep_id |-> ids[g.members[1] + 1],
     remove_ids |-> [x \in 1..Len(g.members) - 1 |-> ids[g.members[x + 1] + 1]]]

\* np.array(embeddings) of rows of unequal length is no n x d matrix
ragged(embeddings) ==
    \E a, b \in 1..Len(embeddings) : Len(embeddings[a]) # Len(embeddings[b])

find_near_duplicates(embeddings, ids_arg, threshold_arg, batch_size) ==
    LET threshold == IF threshold_arg # <<>> /\ threshold_arg[1] # 0
                     THEN threshold_arg[1] ELSE semantic_threshold
        n == Len(embeddings)
        ids == IF ids_arg # <<>> THEN ids_arg ELSE item_ids(n)
        parent == scan_batches([x \in 0..n - 1 |-> x], embeddings, threshold, 0, batch_size)
        groups == collect_groups(parent, n, 0, <<>>)
        dups == SelectIdx(Len(groups),
                          [k \in 1..Len(groups) |-> Len(groups[k].members) > 1], 1)
        dup_groups == [x \in 1..Len(dups) |-> semantic_group_of(groups[dups[x]], ids)]
    IN  IF n = 0 THEN Raised("AxisError")        \* norm(axis=1) of a 1-d empty array
        ELSE IF ragged(embeddings) THEN Raised("ValueError")
        ELSE IF \E x \in 1..Len(dups) : \E y \in 1..Len(groups[dups[x]].members) :
                    groups[dups[x]].members[y] + 1 > Len(ids)
        THEN Raised("IndexError")
        ELSE [DedupResult(n) EXCEPT
                !.unique_items = Len(groups),
                !.duplicate_groups = dup_groups,
                !.removed_ids = removed_ids_of(dup_groups)]

\* ------------------------------------------------------------------ pipeline

\* FullDedupReport; semantic_result is <<>> for None, else <<result>>
FullDedupReport(hash_result, semantic_result, actions_taken) ==
    [raised |-> "", hash_result |-> hash_result,
     semantic_result |-> semantic_result, actions_taken |-> actions_taken]

RaisedReport(exc) ==
    [raised |-> exc, hash_result |-> Raised(exc),
     semantic_result |-> <<>>, actions_taken |-> <<>>]

\* the semantic phase run over every item, the hash phase's removals included
remaining_all(ids, removed_ids) == [k \in 1..Len(ids) |-> k]

\* [i for i, item_id in enumerate(ids) if item_id not in remaining_mask], 1-based
remaining_indices(ids, removed_ids) ==
    SelectIdx(Len(ids), [k \in 1..Len(ids) |-> ids[k] \notin Range(removed_ids)], 1)

\* the first embeddings of the list, whichever items survived
remaining_embeddings_first(embeddings, remaining) ==
    [x \in 1..Len(remaining) |-> embeddings[x]]

\* [embeddings[i] for i in remaining_indices]
remaining_embeddings_of(embeddings, remaining) ==
    [x \in 1..Len(remaining) |-> embeddings[remaining[x]]]

\* hash and semantic duplicates counted as groups, not as removed items
total_duplicates_groups(report) ==
    Len(report.hash_result.duplicate_groups)
    + (IF report.semantic_result # <<>>
       THEN Len(report.semantic_result[1].duplicate_groups) ELSE 0)

\* the semantic phase's duplicates left out of the total
total_duplicates_hash_only(report) == duplicate_count(report.hash_result)

\* hash_result.duplicate_count, plus semantic_result.duplicate_count if any
total_duplicates(report) ==
    duplicate_count(report.hash_result)
    + (IF report.semantic_result # <<>>
       THEN duplicate_count(report.semantic_result[1]) ELSE 0)

\* the guard dropped: the semantic phase run on any number of survivors
semantic_on_any(remaining) == TRUE

\* if len(remaining_indices) > 1
semantic_on(remaining) == Len(remaining) > 1

\* embeddings_arg is <<>> for None, else <<embeddings>>
full_dedup(contents, ids_arg, metadatas_arg, embeddings_arg, batch_size) ==
    LET ids == IF ids_arg # <<>> THEN ids_arg ELSE item_ids(Len(contents))
        metadatas == IF metadatas_arg # <<>> THEN metadatas_arg
                     ELSE [k \in 1..Len(contents) |-> EmptyMeta]
        hash_result == find_duplicates(contents, ids, metadatas, TRUE)
        actions1 == IF duplicate_count(hash_result) > 0
                    THEN << <<"exact duplicates", duplicate_count(hash_result),
                              Len(hash_result.duplicate_groups)>> >>
                    ELSE <<>>
        remaining == remaining_indices(ids, hash_result.removed_ids)
        embeddings == embeddings_arg[1]
        remaining_embeddings == remaining_embeddings_of(embeddings, remaining)
        remaining_ids == [x \in 1..Len(remaining) |-> ids[remaining[x]]]
        semantic_result == find_near_duplicates(remaining_embeddings, remaining_ids,
                                                <<>>, batch_size)
        actions2 == IF duplicate_count(semantic_result) > 0
                    THEN << <<"near-duplicates", duplicate_count(semantic_result)>> >>
                    ELSE <<>>
    IN  IF hash_result.raised # "" THEN RaisedReport(hash_result.raised)
        ELSE IF embeddings_arg = <<>> \/ ~semantic_on(remaining)
        THEN FullDedupReport(hash_result, <<>>, actions1)
        ELSE IF \E x \in 1..Len(remaining) : remaining[x] > Len(embeddings)
        THEN RaisedReport("IndexError")
        ELSE IF semantic_result.raised # "" THEN RaisedReport(semantic_result.raised)
        ELSE FullDedupReport(hash_result, <<semantic_result>>, actions1 \o actions2)

\* ------------------------------------------------------------------ inputs

T_ab == <<"a", SP, "b">>                \* "a b"
T_a_tb == <<"a", SP, TAB, "b">>         \* "a \tb"
T_pad == <<SP, "a", SP, "b", TAB>>      \* " a b\t"
T_c == <<"c">>                          \* "c"

TextPool == {T_ab, T_a_tb, T_pad, T_c}

Meta1 == [none |-> FALSE, kv |-> {<<"source", "a.md">>}]
Meta2 == [none |-> FALSE, kv |-> {<<"source", "a.md">>, <<"page", "1">>}]

MetaPool == {NoneMeta, EmptyMeta, Meta1, Meta2}

\* pairwise cosines: E0.E1 = 0.970, E1.E2 = 0.976, E0.E2 = 0.894, E2.E3 = 0.447
E0 == <<1, 0>>
E1 == <<4, 1>>
E2 == <<2, 1>>
E3 == <<0, 1>>
EZero == <<0, 0>>

EmbPool == {E0, E1, E2, E3, EZero}

\* threshold arguments of a direct call: None, 0, 0.9, 1
ThresholdPool == {<<>>, <<0>>, <<90>>, <<100>>}

\* the documents of a collection: content and metadata
DocPool == {[content |-> T_ab, meta |-> EmptyMeta],
            [content |-> T_a_tb, meta |-> Meta1],
            [content |-> T_c, meta |-> EmptyMeta]}

StoreEmbPool == {E0, E1, E2}

caller_ids(n) == [k \in 1..n |-> "id" \o ToString(k)]

\* the collections of n items with the ids id1..idn
Stores(n) ==
    {[k \in 1..n |-> [id |-> caller_ids(n)[k], content |-> d[k].content,
                      meta |-> d[k].meta, emb |-> e[k]]] :
        d \in [1..n -> DocPool], e \in [1..n -> StoreEmbPool]}

\* ------------------------------------------------------------------ store runs

Callers == {1, 2}

NoReport == FullDedupReport(DedupResult(0), <<>>, <<>>)

\* a caller's call: pc is idle (never called), deleting (between delete calls),
\* done (returned: report is the value returned) or failed (raised: raised names it);
\* before is the collection as fetched, deleted the batches passed to delete so far
IdleRun ==
    [pc |-> "idle", kind |-> "", include_semantic |-> FALSE, dry_run |-> TRUE,
     before |-> <<>>, report |-> NoReport, all_remove_ids |-> <<>>, i |-> 0,
     deleted |-> <<>>, raised |-> "", prior |-> ""]

\* what the caller's next call knows of call r: the pipeline r applied, when r
\* is an apply-mode call that returned; "" otherwise
prior_of(r) ==
    IF r.pc = "done" /\ ~r.dry_run
    THEN (IF r.kind = "hash" THEN "hash"
          ELSE IF r.include_semantic THEN "engine+semantic" ELSE "engine")
    ELSE ""

\* collection.delete(ids = batch): an id that is not in the collection is ignored
delete(items, batch) ==
    LET keep == SelectIdx(Len(items), [k \in 1..Len(items) |-> items[k].id \notin Range(batch)], 1)
    IN  [x \in 1..Len(keep) |-> items[keep[x]]]

\* all_remove_ids[i : i + batch_size + 1]: one id too many in a batch
batch_at_one_more(all_remove_ids, i, batch_size) ==
    SubSeq(all_remove_ids, i + 1, Min(i + batch_size + 1, Len(all_remove_ids)))

\* all_remove_ids[i : i + batch_size]
batch_at(all_remove_ids, i, batch_size) ==
    SubSeq(all_remove_ids, i + 1, Min(i + batch_size, Len(all_remove_ids)))

\* the guard dropped: deletes in a dry run too
apply_always(dry_run) == TRUE

\* if not dry_run
apply_mode(dry_run) == ~dry_run

\* the semantic removals left out of the deletion list
all_remove_ids_hash_only(report) == report.hash_result.removed_ids

\* the semantic removals listed before the hash removals
all_remove_ids_semantic_first(report) ==
    (IF report.semantic_result # <<>> THEN report.semantic_result[1].removed_ids ELSE <<>>)
    \o report.hash_result.removed_ids

\* all_remove_ids of dedup_chromadb_collection
all_remove_ids_of(report) ==
    report.hash_result.removed_ids
    \o (IF report.semantic_result # <<>> THEN report.semantic_result[1].removed_ids ELSE <<>>)

\* the state of a call after the fetch and the computation of its report
started(r, kind, include_semantic, dry_run, report) ==
    LET ids == all_remove_ids_of(report)
        base == [IdleRun EXCEPT !.kind = kind, !.include_semantic = include_semantic,
                                !.dry_run = dry_run, !.before = store,
                                !.prior = prior_of(r)]
    IN  IF report.raised # ""
        THEN [base EXCEPT !.pc = "failed", !.raised = report.raised]
        ELSE IF apply_mode(dry_run) /\ ids # <<>>
        THEN [base EXCEPT !.pc = "deleting", !.report = report, !.all_remove_ids = ids]
        ELSE [base EXCEPT !.pc = "done", !.report = report]

contents_of(items) == [k \in 1..Len(items) |-> items[k].content]
ids_of(items) == [k \in 1..Len(items) |-> items[k].id]
metadatas_of(items) == [k \in 1..Len(items) |-> items[k].meta]
embeddings_of(items) == [k \in 1..Len(items) |-> items[k].emb]

\* DedupEngine.dedup_chromadb_collection up to its first delete call
dedup_chromadb_collection(p, include_semantic, dry_run) ==
    /\ runs[p].pc \in {"idle", "done", "failed"}
    /\ LET report == full_dedup(contents_of(store), ids_of(store), metadatas_of(store),
                                IF include_semantic THEN <<embeddings_of(store)>> ELSE <<>>,
                                config.batch_size)
       IN  runs' = [runs EXCEPT ![p] = started(@, "engine", include_semantic, dry_run, report)]
    /\ UNCHANGED <<store, call, config>>

\* HashDeduplicator.deduplicate_chromadb up to its first delete call; the
\* DedupResult it returns is kept as the hash_result of a report
deduplicate_chromadb(p, dry_run) ==
    /\ runs[p].pc \in {"idle", "done", "failed"}
    /\ LET result == find_duplicates(contents_of(store), ids_of(store),
                                     metadatas_of(store), TRUE)
           report == IF result.raised # "" THEN RaisedReport(result.raised)
                     ELSE FullDedupReport(result, <<>>, <<>>)
       IN  runs' = [runs EXCEPT ![p] = started(@, "hash", FALSE, dry_run, report)]
    /\ UNCHANGED <<store, call, config>>

\* client.get_collection / collection.get raises and the call returns an empty report
fetch_fails_empty_report(p) ==
    /\ runs[p].pc \in {"idle", "done", "failed"}
    /\ runs' = [runs EXCEPT ![p] = [IdleRun EXCEPT !.pc = "done", !.before = store]]
    /\ UNCHANGED <<store, call, config>>

\* client.get_collection / collection.get raises: the call raises with it
fetch_fails(p) ==
    /\ runs[p].pc \in {"idle", "done", "failed"}
    /\ runs' = [runs EXCEPT ![p] =
                  [IdleRun EXCEPT !.pc = "failed", !.raised = "StoreError",
                                  !.before = store]]
    /\ UNCHANGED <<store, call, config>>

\* the note appended inside the loop: one after every collection.delete
delete_batch_note_each(p) ==
    /\ runs[p].pc = "deleting"
    /\ LET r == runs[p]
           batch == batch_at(r.all_remove_ids, r.i, config.batch_size)
           last == r.i + config.batch_size >= Len(r.all_remove_ids)
       IN  /\ store' = delete(store, batch)
           /\ runs' = [runs EXCEPT ![p] =
                         [r EXCEPT !.i = r.i + config.batch_size,
                                   !.deleted = Append(@, batch),
                                   !.pc = IF last THEN "done" ELSE "deleting",
                                   !.report.actions_taken =
                                       IF r.kind = "engine"
                                       THEN Append(@, <<"deleted", Len(r.all_remove_ids)>>)
                                       ELSE @]]
    /\ UNCHANGED <<call, config>>

\* one collection.delete(ids = batch); after the last one the engine appends its
\* note and returns the report
delete_batch(p) ==
    /\ runs[p].pc = "deleting"
    /\ LET r == runs[p]
           batch == batch_at(r.all_remove_ids, r.i, config.batch_size)
           last == r.i + config.batch_size >= Len(r.all_remove_ids)
       IN  /\ store' = delete(store, batch)
           /\ runs' = [runs EXCEPT ![p] =
                         [r EXCEPT !.i = r.i + config.batch_size,
                                   !.deleted = Append(@, batch),
                                   !.pc = IF last THEN "done" ELSE "deleting",
                                   !.report.actions_taken =
                                       IF last /\ r.kind = "engine"
                                       THEN Append(@, <<"deleted", Len(r.all_remove_ids)>>)
                                       ELSE @]]
    /\ UNCHANGED <<call, config>>

\* collection.delete raises and the exception is caught: the call returns its report
delete_fails_swallowed(p) ==
    /\ runs[p].pc = "deleting"
    /\ runs' = [runs EXCEPT ![p] = [@ EXCEPT !.pc = "done"]]
    /\ UNCHANGED <<store, call, config>>

\* collection.delete raises: nothing catches it
delete_fails(p) ==
    /\ runs[p].pc = "deleting"
    /\ runs' = [runs EXCEPT ![p] = [@ EXCEPT !.pc = "failed", !.raised = "StoreError"]]
    /\ UNCHANGED <<store, call, config>>

NoCall == [op |-> "none"]

Init ==
    /\ store \in UNION {Stores(n) : n \in 0..MaxStore}
    /\ runs = [p \in Callers |-> IdleRun]
    /\ call = NoCall
    /\ config \in [batch_size : BatchSizes]

\* one caller, whose calls follow one another
Next ==
    \/ \E sem \in BOOLEAN, dry \in BOOLEAN : dedup_chromadb_collection(1, sem, dry)
    \/ \E dry \in BOOLEAN : deduplicate_chromadb(1, dry)
    \/ fetch_fails(1)
    \/ delete_batch(1)
    \/ delete_fails(1)

Spec == Init /\ [][Next]_vars

\* ------------------------------------------------------------------ direct calls

\* Arguments of a direct call: ids and metadatas are omitted or hold one entry per
\* item ("IDs for each item"), the ids distinct.

\* HashDeduplicator.find_duplicates(contents, ids, metadatas, normalize)
call_find_duplicates ==
    /\ call = NoCall
    /\ \E n \in 0..MaxItems :
       \E contents \in [1..n -> TextPool] :
       \E metadatas \in [1..n -> MetaPool] \cup {<<>>} :
       \E ids \in {caller_ids(n), <<>>} :
       \E norm \in BOOLEAN :
           /\ call' = [op |-> "find_duplicates", contents |-> contents, ids |-> ids,
                       metadatas |-> metadatas, normalize |-> norm,
                       result |-> find_duplicates(contents, ids, metadatas, norm)]
           /\ UNCHANGED <<store, runs, config>>

\* SemanticDeduplicator.find_near_duplicates(embeddings, ids, threshold)
call_find_near_duplicates ==
    /\ call = NoCall
    /\ \E n \in 0..MaxEmbeddings :
       \E embeddings \in [1..n -> EmbPool] :
       \E ids \in {caller_ids(n), <<>>} :
       \E threshold \in ThresholdPool :
           /\ call' = [op |-> "find_near_duplicates", embeddings |-> embeddings, ids |-> ids,
                       threshold |-> threshold,
                       result |-> find_near_duplicates(embeddings, ids, threshold, config.batch_size)]
           /\ UNCHANGED <<store, runs, config>>

\* DedupEngine.full_dedup(contents, ids, metadatas, embeddings, dry_run)
call_full_dedup ==
    /\ call = NoCall
    /\ \E n \in 0..MaxItems :
       \E docs \in [1..n -> DocPool] :
       \E embeddings \in {<<e>> : e \in [1..n -> StoreEmbPool]} \cup {<<>>} :
       \E ids \in {caller_ids(n), <<>>} :
       \E with_metadatas \in BOOLEAN :
       \E dry_run \in BOOLEAN :
           LET contents == [k \in 1..n |-> docs[k].content]
               metadatas == IF with_metadatas THEN [k \in 1..n |-> docs[k].meta] ELSE <<>>
           IN  /\ call' = [op |-> "full_dedup", contents |-> contents, ids |-> ids,
                           metadatas |-> metadatas, embeddings |-> embeddings,
                           dry_run |-> dry_run,
                           report |-> full_dedup(contents, ids, metadatas, embeddings, config.batch_size)]
               /\ UNCHANGED <<store, runs, config>>

\* an embedding of another dimensionality than the pool's
E3d == <<1, 0, 0>>

\* DedupEngine.full_dedup called with an embeddings list that may be shorter
\* than the item list or hold vectors of different lengths
call_full_dedup_embeddings ==
    /\ call = NoCall
    /\ \E n \in 0..MaxItems :
       \E m \in 0..n :
       \E docs \in [1..n -> DocPool] :
       \E embeddings \in [1..m -> StoreEmbPool \cup {E3d}] :
       \E ids \in {caller_ids(n), <<>>} :
           LET contents == [k \in 1..n |-> docs[k].content]
           IN  /\ call' = [op |-> "full_dedup", contents |-> contents, ids |-> ids,
                           metadatas |-> <<>>, embeddings |-> <<embeddings>>,
                           dry_run |-> TRUE,
                           report |-> full_dedup(contents, ids, <<>>, <<embeddings>>,
                                                 config.batch_size)]
               /\ UNCHANGED <<store, runs, config>>

\* the functions keep no state between calls: a behaviour makes one direct call
InitCalls ==
    /\ store = <<>>
    /\ runs = [p \in Callers |-> IdleRun]
    /\ call = NoCall
    /\ config \in [batch_size : BatchSizes]

NextCalls ==
    \/ call_find_duplicates
    \/ call_find_near_duplicates
    \/ call_full_dedup

SpecCalls == InitCalls /\ [][NextCalls]_vars

\* a None entry of an ids list
NoneId == "None"

\* HashDeduplicator.find_duplicates called with an ids list that may be shorter
\* than contents and may hold None entries
call_find_duplicates_ids ==
    /\ call = NoCall
    /\ \E n \in 0..MaxItems :
       \E m \in 0..n :
       \E contents \in [1..n -> TextPool] :
       \E missing \in SUBSET (1..m) :
           LET ids == [k \in 1..m |-> IF k \in missing THEN NoneId ELSE caller_ids(n)[k]]
           IN  /\ call' = [op |-> "find_duplicates", contents |-> contents, ids |-> ids,
                           metadatas |-> <<>>, normalize |-> TRUE,
                           result |-> find_duplicates(contents, ids, <<>>, TRUE)]
               /\ UNCHANGED <<store, runs, config>>

\* direct calls whose lists do not match the item list
NextMalformed ==
    \/ call_full_dedup_embeddings
    \/ call_find_duplicates_ids

SpecMalformed == InitCalls /\ [][NextMalformed]_vars

\* find_near_duplicates step by step, the call's locals kept in `call`: todo
\* is the rest of the pairs the batch loops read, k the next index of the
\* group-collecting loop
scan_start ==
    /\ call = NoCall
    /\ \E n \in 1..MaxEmbeddings :
       \E embeddings \in [1..n -> EmbPool] :
           call' = [op |-> "scan", embeddings |-> embeddings,
                    parent |-> [x \in 0..n - 1 |-> x],
                    todo |-> pairs_batches(n, 0, config.batch_size), k |-> 0]
    /\ UNCHANGED <<store, runs, config>>

\* if sim_matrix[bi, j] >= threshold: union(global_i, j)
scan_pair ==
    /\ call.op = "scan" /\ call.todo # <<>>
    /\ LET global_i == Head(call.todo)[1]
           j == Head(call.todo)[2]
       IN  call' = [call EXCEPT
                      !.todo = Tail(@),
                      !.parent = IF sim_ge(call.embeddings[global_i + 1],
                                           call.embeddings[j + 1], semantic_threshold)
                                 THEN union(@, global_i, j) ELSE @]
    /\ UNCHANGED <<store, runs, config>>

\* root = find(i) of the loop that collects the groups
collect_find ==
    /\ call.op = "scan" /\ call.todo = <<>> /\ call.k < Len(call.embeddings)
    /\ call' = [call EXCEPT !.parent = find(@, call.k).parent, !.k = @ + 1]
    /\ UNCHANGED <<store, runs, config>>

NextUnionFind ==
    \/ scan_start
    \/ scan_pair
    \/ collect_find

SpecUnionFind == InitCalls /\ [][NextUnionFind]_vars

\* two callers, each making one apply-mode call of dedup_chromadb_collection
\* against the same store: the steps are each call's fetch and each of its
\* collection.delete calls, interleaved in any order
NextTwoRuns ==
    \E p \in Callers :
        \/ /\ runs[p].pc = "idle"
           /\ \E include_semantic \in BOOLEAN :
                  dedup_chromadb_collection(p, include_semantic, FALSE)
        \/ delete_batch(p)

SpecTwoRuns == Init /\ [][NextTwoRuns]_vars

\* ------------------------------------------------------------------ properties

\* the DedupResults the direct call returned
returned_results ==
    IF call.op \in {"find_duplicates", "find_near_duplicates"}
    THEN (IF call.result.raised = "" THEN {call.result} ELSE {})
    ELSE IF call.op = "full_dedup" /\ call.report.raised = ""
    THEN {call.report.hash_result} \cup Range(call.report.semantic_result)
    ELSE {}

NoRepeats(seq) == \A a, b \in 1..Len(seq) : a # b => seq[a] # seq[b]

\* seq without its entries equal to x, order kept
Without(seq, x) ==
    LET js == SelectIdx(Len(seq), [k \in 1..Len(seq) |-> seq[k] # x], 1)
    IN  [a \in 1..Len(js) |-> seq[js[a]]]

\* C1: every DedupResult returned by find_duplicates or find_near_duplicates
\* (called directly or by full_dedup) has unique_items + len(removed_ids) ==
\* total_items, that is duplicate_count == len(removed_ids).
C1_CountsAddUp ==
    \A r \in returned_results :
        /\ r.unique_items + Len(r.removed_ids) = r.total_items
        /\ duplicate_count(r) = Len(r.removed_ids)

\* a full_dedup call in which both phases removed something
C1_Witness ==
    /\ call.op = "full_dedup"
    /\ call.report.raised = ""
    /\ call.report.hash_result.removed_ids # <<>>
    /\ call.report.semantic_result # <<>>
    /\ call.report.semantic_result[1].removed_ids # <<>>

\* C2: every DuplicateGroup of every returned DedupResult has at least 2 member
\* ids, its keep_id is one of them, and its remove_ids are the member ids without
\* keep_id, in the members' order.
C2_GroupsWellFormed ==
    \A r \in returned_results :
        \A x \in 1..Len(r.duplicate_groups) :
            LET g == r.duplicate_groups[x]
            IN  /\ Len(g.ids) >= 2
                /\ g.keep_id \in Range(g.ids)
                /\ g.keep_id \notin Range(g.remove_ids)
                /\ g.remove_ids = Without(g.ids, g.keep_id)

\* a hash result with a group and a singleton bucket beside it, the keeper not
\* the group's first member
C2_Witness ==
    /\ call.op = "find_duplicates"
    /\ call.result.raised = ""
    /\ Len(call.result.duplicate_groups) = 1
    /\ call.result.unique_items = 2
    /\ call.result.duplicate_groups[1].keep_id # call.result.duplicate_groups[1].ids[1]

\* C3: in one DedupResult no id is a member of two DuplicateGroups, and
\* removed_ids is the groups' remove_ids one after the other, no id twice.
C3_GroupsDisjoint ==
    \A r \in returned_results :
        /\ \A x, y \in 1..Len(r.duplicate_groups) :
               x # y => Range(r.duplicate_groups[x].ids)
                            \cap Range(r.duplicate_groups[y].ids) = {}
        /\ \A x \in 1..Len(r.duplicate_groups) : NoRepeats(r.duplicate_groups[x].ids)
        /\ r.removed_ids =
               Concat([x \in 1..Len(r.duplicate_groups) |-> r.duplicate_groups[x].remove_ids])
        /\ NoRepeats(r.removed_ids)

\* a semantic result with two groups
C3_Witness ==
    /\ call.op = "find_near_duplicates"
    /\ call.result.raised = ""
    /\ Len(call.result.duplicate_groups) = 2

\* the ids passed to collection.delete so far by caller p's call
deleted_ids(p) == Range(Concat(runs[p].deleted))

\* the fingerprint the hash phase of the pipeline groups by (normalize = True)
fingerprint(item) == content_hash(_normalize(item.content))

\* item x of items shares its fingerprint with no other item and is below the
\* threshold to every other item that the hash phase did not remove
isolated(items, hash_removed, x) ==
    \A y \in 1..Len(items) :
        y # x =>
            /\ fingerprint(items[y]) # fingerprint(items[x])
            /\ items[y].id \notin Range(hash_removed)
                   => ~sim_ge(items[x].emb, items[y].emb, semantic_threshold)

semantic_removed(report) ==
    IF report.semantic_result # <<>> THEN report.semantic_result[1].removed_ids ELSE <<>>

\* C4: an item whose fingerprint no other item shares and whose similarity to
\* every other hash-phase survivor is below the threshold is in neither phase's
\* removed_ids and is never passed to a delete call.
C4_IsolatedItemKept ==
    \A p \in Callers :
        LET r == runs[p] IN
        r.kind = "engine" /\ r.pc \in {"deleting", "done"} =>
            \A x \in 1..Len(r.before) :
                isolated(r.before, r.report.hash_result.removed_ids, x) =>
                    /\ r.before[x].id \notin Range(r.report.hash_result.removed_ids)
                    /\ r.before[x].id \notin Range(semantic_removed(r.report))
                    /\ r.before[x].id \notin deleted_ids(p)

\* an apply-mode run that deleted a hash duplicate and ran the semantic phase,
\* with an isolated item that is above the threshold to the deleted duplicate
C4_Witness ==
    LET r == runs[1] IN
    /\ r.kind = "engine" /\ r.pc = "done" /\ ~r.dry_run
    /\ r.report.semantic_result # <<>>
    /\ r.deleted # <<>>
    /\ \E x, y \in 1..Len(r.before) :
          /\ isolated(r.before, r.report.hash_result.removed_ids, x)
          /\ r.before[y].id \in Range(r.report.hash_result.removed_ids)
          /\ sim_ge(r.before[x].emb, r.before[y].emb, semantic_threshold)
          /\ r.before[x] \in Range(store)

\* C5: a dry run of dedup_chromadb_collection or deduplicate_chromadb issues no
\* delete call; the collection stays as it was fetched.
C5_DryRunDeletesNothing ==
    \A p \in Callers :
        runs[p].kind # "" /\ runs[p].dry_run =>
            /\ runs[p].pc # "deleting"
            /\ runs[p].deleted = <<>>
            /\ store = runs[p].before

\* a dry run of the engine that returned a report with duplicates of both phases
C5_Witness ==
    LET r == runs[1] IN
    /\ r.kind = "engine" /\ r.pc = "done" /\ r.dry_run
    /\ r.report.hash_result.removed_ids # <<>>
    /\ semantic_removed(r.report) # <<>>
    /\ store = r.before

\* C6: in an apply-mode run of dedup_chromadb_collection every delete call
\* carries between 1 and batch_size ids, no id is passed twice, only ids of the
\* two phases' removed_ids are passed, and when the run returns every one of
\* them has been passed.
C6_DeletesExactlyRemoved ==
    \A p \in Callers :
        LET r == runs[p]
            removed == Range(r.report.hash_result.removed_ids)
                       \cup Range(semantic_removed(r.report))
        IN  r.kind = "engine" /\ ~r.dry_run /\ r.pc \in {"deleting", "done"} =>
                /\ \A b \in 1..Len(r.deleted) :
                       Len(r.deleted[b]) >= 1 /\ Len(r.deleted[b]) <= config.batch_size
                /\ NoRepeats(Concat(r.deleted))
                /\ deleted_ids(p) \subseteq removed
                /\ r.pc = "done" => deleted_ids(p) = removed

\* an apply-mode run that returned after two delete calls, with removals of both phases
C6_Witness ==
    LET r == runs[1] IN
    /\ r.kind = "engine" /\ r.pc = "done" /\ ~r.dry_run
    /\ Len(r.deleted) >= 2
    /\ r.report.hash_result.removed_ids # <<>>
    /\ semantic_removed(r.report) # <<>>

\* the pipeline that call r runs, as prior_of names it
pipeline_of(r) ==
    IF r.kind = "hash" THEN "hash"
    ELSE IF r.include_semantic THEN "engine+semantic" ELSE "engine"

\* C7: an apply-mode run of dedup_chromadb_collection that follows a completed
\* apply-mode run of the same pipeline on the same collection reports no
\* duplicate group in either phase, total_duplicates == 0, and issues no delete call.
C7_SecondApplyFindsNothing ==
    \A p \in Callers :
        LET r == runs[p] IN
        r.kind = "engine" /\ ~r.dry_run /\ r.prior = pipeline_of(r) /\ r.pc # "failed" =>
            /\ r.pc = "done"
            /\ r.report.hash_result.duplicate_groups = <<>>
            /\ \A sr \in Range(r.report.semantic_result) : sr.duplicate_groups = <<>>
            /\ total_duplicates(r.report) = 0
            /\ r.deleted = <<>>
            /\ store = r.before

\* a second apply-mode run, semantic phase included, on a collection from which
\* the first run deleted an item and left two or more
C7_Witness ==
    LET r == runs[1] IN
    /\ r.kind = "engine" /\ ~r.dry_run /\ r.pc = "done"
    /\ r.prior = "engine+semantic" /\ r.include_semantic
    /\ r.report.semantic_result # <<>>
    /\ Len(r.before) >= 2
    /\ ids_of(r.before) # caller_ids(Len(r.before))

\* text.split(): the maximal runs of characters that are not whitespace
RECURSIVE words(_)
words(text) ==
    LET t == lstrip(text)
        RECURSIVE word_len(_)
        word_len(k) == IF k < Len(t) /\ ~IsSpace(t[k + 1]) THEN word_len(k + 1) ELSE k
    IN  IF t = <<>> THEN <<>>
        ELSE <<SubSeq(t, 1, word_len(0))>> \o words(SubSeq(t, word_len(0) + 1, Len(t)))

\* the ids find_duplicates gives the items of the direct call
call_ids == IF call.ids # <<>> THEN call.ids ELSE item_ids(Len(call.contents))

\* the metadatas find_duplicates reads for the items of the direct call
call_metadatas ==
    IF call.metadatas # <<>> THEN call.metadatas
    ELSE [k \in 1..Len(call.contents) |-> EmptyMeta]

\* items a and b of the direct call are members of one duplicate group
same_group(result, a, b) ==
    \E x \in 1..Len(result.duplicate_groups) :
        {call_ids[a], call_ids[b]} \subseteq Range(result.duplicate_groups[x].ids)

\* C9: find_duplicates puts two items in one duplicate group iff their
\* fingerprints are equal, the fingerprint taken over the trimmed text with every
\* whitespace run collapsed to one space when normalize = True and over the raw
\* text otherwise; unique_items is the number of distinct fingerprints; two
\* different texts with the same words, differing only in whitespace, are
\* duplicates with normalization on and are not with it off.
C9_GroupsByFingerprint ==
    call.op = "find_duplicates" /\ call.result.raised = "" =>
        LET n == Len(call.contents)
            fp(k) == content_hash(IF call.normalize THEN collapse_ws(strip(call.contents[k]))
                                  ELSE call.contents[k])
        IN  /\ \A a, b \in 1..n :
                   a # b => (same_group(call.result, a, b) <=> fp(a) = fp(b))
            /\ call.result.unique_items = Cardinality({fp(k) : k \in 1..n})
            /\ \A a, b \in 1..n :
                   /\ a # b
                   /\ call.contents[a] # call.contents[b]
                   /\ words(call.contents[a]) = words(call.contents[b])
                   => (same_group(call.result, a, b) <=> call.normalize)

\* calls on "a b", "a \tb", "c" with normalization on: the first two are grouped
C9_Witness ==
    /\ call.op = "find_duplicates" /\ call.result.raised = ""
    /\ call.normalize
    /\ call.contents = <<T_ab, T_a_tb, T_c>>
    /\ Len(call.result.duplicate_groups) = 1
    /\ call.result.unique_items = 2

\* the position in the direct call's input of the item with this id
position_of(id) == CHOOSE k \in 1..Len(call_ids) : call_ids[k] = id

\* C10: in every hash duplicate group keep_id is the member with the most
\* metadata key/value pairs, and among the members with the most it is the
\* first in input order.
C10_KeepMostMetadataThenFirst ==
    call.op = "find_duplicates" /\ call.result.raised = "" =>
        \A x \in 1..Len(call.result.duplicate_groups) :
            LET g == call.result.duplicate_groups[x]
                kp == position_of(g.keep_id)
                count(k) == Cardinality(call_metadatas[k].kv)
            IN  \A id \in Range(g.ids) :
                    LET m == position_of(id)
                    IN  /\ count(m) <= count(kp)
                        /\ count(m) = count(kp) => kp <= m

\* a group of three whose second and third members tie for the most metadata
C10_Witness ==
    /\ call.op = "find_duplicates" /\ call.result.raised = ""
    /\ Len(call.contents) = 3
    /\ call.metadatas = <<EmptyMeta, Meta1, Meta1>>
    /\ Len(call.result.duplicate_groups) = 1
    /\ Len(call.result.duplicate_groups[1].ids) = 3
    /\ call.result.duplicate_groups[1].keep_id = call_ids[2]

\* the ids find_near_duplicates gives the embeddings of the direct call
near_ids == IF call.ids # <<>> THEN call.ids ELSE item_ids(Len(call.embeddings))

\* the threshold find_near_duplicates compares with in the direct call
near_threshold ==
    IF call.threshold # <<>> /\ call.threshold[1] # 0 THEN call.threshold[1]
    ELSE semantic_threshold

\* the items linked to an item of S by a chain of pairs at or above the threshold
RECURSIVE component(_, _, _)
component(embeddings, threshold, S) ==
    LET T == S \cup {b \in 1..Len(embeddings) :
                        \E a \in S : sim_ge(embeddings[a], embeddings[b], threshold)}
    IN  IF T = S THEN S ELSE component(embeddings, threshold, T)

\* embeddings a and b of the direct call are members of one duplicate group
same_near_group(result, a, b) ==
    \E x \in 1..Len(result.duplicate_groups) :
        {near_ids[a], near_ids[b]} \subseteq Range(result.duplicate_groups[x].ids)

\* C11: find_near_duplicates groups two items iff a chain of pairs with
\* similarity >= threshold links them (the threshold being the one the function
\* compares with), also when their own similarity is below it; unique_items is
\* the number of connected components, singletons included.
C11_ConnectedComponents ==
    call.op = "find_near_duplicates" /\ call.result.raised = "" =>
        LET n == Len(call.embeddings)
            comp(a) == component(call.embeddings, near_threshold, {a})
        IN  /\ \A a, b \in 1..n :
                   a # b => (same_near_group(call.result, a, b) <=> b \in comp(a))
            /\ call.result.unique_items = Cardinality({comp(a) : a \in 1..n})

\* one group of three whose first and last members are below the threshold
\* to each other, beside a singleton
C11_Witness ==
    /\ call.op = "find_near_duplicates" /\ call.result.raised = ""
    /\ call.embeddings = <<E0, E3, E1, E2>>
    /\ call.threshold = <<>>
    /\ ~sim_ge(E0, E2, semantic_threshold)
    /\ Len(call.result.duplicate_groups) = 1
    /\ Len(call.result.duplicate_groups[1].ids) = 3
    /\ call.result.unique_items = 2

\* the position in the direct call's embeddings of the item with this id
near_position_of(id) == CHOOSE k \in 1..Len(near_ids) : near_ids[k] = id

\* C12: in every semantic duplicate group the ids are listed in increasing
\* input order, keep_id is the first of them (the member with the smallest
\* input index) and remove_ids are the others in the same order.
C12_SemanticKeepsFirst ==
    call.op = "find_near_duplicates" /\ call.result.raised = "" =>
        \A x \in 1..Len(call.result.duplicate_groups) :
            LET g == call.result.duplicate_groups[x]
            IN  /\ \A a, b \in 1..Len(g.ids) :
                       a < b => near_position_of(g.ids[a]) < near_position_of(g.ids[b])
                /\ \A id \in Range(g.ids) :
                       near_position_of(g.keep_id) <= near_position_of(id)
                /\ g.keep_id = g.ids[1]
                /\ g.remove_ids = Tail(g.ids)

\* a group of three whose union-find root is not its first member
C12_Witness ==
    /\ call.op = "find_near_duplicates" /\ call.result.raised = ""
    /\ Len(call.result.duplicate_groups) = 1
    /\ Len(call.result.duplicate_groups[1].ids) = 3
    /\ call.result.duplicate_groups[1].keep_id = near_ids[1]
    /\ call.result.duplicate_groups[1].hash_value # "semantic_group_0"

\* the items of a list whose ids are not among the removed ones, in order
surviving(items, ids, removed_ids) ==
    LET Keep == [k \in 1..Len(ids) |-> ids[k] \notin Range(removed_ids)]
        idx == SelectIdx(Len(ids), Keep, 1)
    IN  [x \in 1..Len(idx) |-> items[idx[x]]]

\* C13: when full_dedup runs its semantic phase, it runs it on exactly the
\* items whose ids the hash phase did not remove, in their original order and
\* each with its own embedding; no id is in both phases' removed_ids, and
\* every id in a semantic group is a hash-phase survivor.
C13_SemanticOnHashSurvivors ==
    call.op = "full_dedup" /\ call.report.raised = ""
    /\ call.report.semantic_result # <<>> =>
        LET hash_removed == call.report.hash_result.removed_ids
            semantic_result == call.report.semantic_result[1]
            survivors == surviving(call_ids, call_ids, hash_removed)
            their_embeddings == surviving(call.embeddings[1], call_ids, hash_removed)
        IN  /\ semantic_result.total_items = Len(survivors)
            /\ semantic_result = find_near_duplicates(their_embeddings, survivors,
                                                      <<>>, config.batch_size)
            /\ Range(hash_removed) \cap Range(semantic_result.removed_ids) = {}
            /\ \A x \in 1..Len(semantic_result.duplicate_groups) :
                   Range(semantic_result.duplicate_groups[x].ids)
                       \subseteq Range(call_ids) \ Range(hash_removed)

\* the hash phase removed the first item and the semantic phase then removed
\* one of the two survivors
C13_Witness ==
    /\ call.op = "full_dedup" /\ call.report.raised = ""
    /\ call.report.semantic_result # <<>>
    /\ Len(call.contents) = 3
    /\ call.report.hash_result.removed_ids = <<call_ids[1]>>
    /\ Len(call.report.semantic_result[1].removed_ids) = 1
    /\ call.embeddings[1][1] # call.embeddings[1][2]

\* C14: full_dedup runs the hash phase over the complete item list
\* (hash_result.total_items is the number of input items); when embeddings is
\* None there is no semantic phase: semantic_result is None and
\* total_duplicates is the hash phase's duplicate_count.
C14_HashAlwaysSemanticOnlyWithEmbeddings ==
    call.op = "full_dedup" /\ call.report.raised = "" =>
        /\ call.report.hash_result.total_items = Len(call.contents)
        /\ call.embeddings = <<>> =>
               /\ call.report.semantic_result = <<>>
               /\ total_duplicates(call.report)
                      = Len(call.report.hash_result.removed_ids)

\* three copies of one text and no embeddings: two hash duplicates in one
\* group, no semantic result
C14_Witness ==
    /\ call.op = "full_dedup" /\ call.report.raised = ""
    /\ call.embeddings = <<>>
    /\ Len(call.contents) = 3
    /\ Len(call.report.hash_result.removed_ids) = 2
    /\ call.report.semantic_result = <<>>

\* C15: the report's total_duplicates is the hash phase's duplicate_count plus
\* the semantic phase's (0 when that phase was skipped); an apply-mode run of
\* dedup_chromadb_collection submits exactly that many ids for deletion, and
\* when it returns the store holds exactly total_duplicates items fewer.
C15_TotalIsWhatApplyDeletes ==
    \A p \in Callers :
        LET r == runs[p]
            hash_count == r.report.hash_result.total_items
                          - r.report.hash_result.unique_items
            semantic_count == IF r.report.semantic_result = <<>> THEN 0
                              ELSE r.report.semantic_result[1].total_items
                                   - r.report.semantic_result[1].unique_items
        IN  r.kind = "engine" /\ r.pc \in {"deleting", "done"} =>
                /\ total_duplicates(r.report) = hash_count + semantic_count
                /\ ~r.dry_run =>
                       /\ Len(r.all_remove_ids) = total_duplicates(r.report)
                       /\ r.pc = "done" =>
                              /\ Len(Concat(r.deleted)) = total_duplicates(r.report)
                              /\ Len(store) = Len(r.before) - total_duplicates(r.report)

\* an apply-mode run that returned with one duplicate of each phase: of three
\* stored items one is left
C15_Witness ==
    LET r == runs[1] IN
    /\ r.kind = "engine" /\ r.pc = "done" /\ ~r.dry_run
    /\ duplicate_count(r.report.hash_result) = 1
    /\ r.report.semantic_result # <<>>
    /\ duplicate_count(r.report.semantic_result[1]) = 1
    /\ total_duplicates(r.report) = 2
    /\ Len(r.before) = 3 /\ Len(store) = 1

\* the keep_id of every duplicate group of a result
keep_ids(result) ==
    {result.duplicate_groups[x].keep_id : x \in 1..Len(result.duplicate_groups)}

\* the keep_ids of the semantic phase's groups, none when it did not run
semantic_keep_ids(report) ==
    IF report.semantic_result = <<>> THEN {} ELSE keep_ids(report.semantic_result[1])

\* the ids of the items now in the store
store_ids == {store[k].id : k \in 1..Len(store)}

\* C16 as stated: in an apply-mode run no keep_id of a hash or semantic group
\* is passed to a delete call, and when the run returns every such keep_id is
\* still in the store.
C16_EveryKeeperRetained ==
    \A p \in Callers :
        LET r == runs[p]
            keepers == keep_ids(r.report.hash_result) \cup semantic_keep_ids(r.report)
        IN  r.kind = "engine" /\ ~r.dry_run /\ r.pc \in {"deleting", "done"} =>
                /\ deleted_ids(p) \cap keepers = {}
                /\ r.pc = "done" => keepers \subseteq store_ids

\* C16: in an apply-mode run no keep_id of a semantic group is passed to a
\* delete call, and the keep_id of a hash group is passed to one only if the
\* semantic phase lists it in its removed_ids; when the run returns, every
\* semantic keep_id and every hash keep_id the semantic phase did not remove is
\* still in the store.
C16_KeeperRetainedUnlessSemanticRemoved ==
    \A p \in Callers :
        LET r == runs[p]
            retained == (keep_ids(r.report.hash_result)
                            \ Range(semantic_removed(r.report)))
                        \cup semantic_keep_ids(r.report)
        IN  r.kind = "engine" /\ ~r.dry_run /\ r.pc \in {"deleting", "done"} =>
                /\ deleted_ids(p) \cap retained = {}
                /\ r.pc = "done" => retained \subseteq store_ids

\* an apply-mode run that returned after deleting the keeper of a hash group,
\* which the semantic phase removed as a near-duplicate of an earlier item
C16_Witness ==
    LET r == runs[1] IN
    /\ r.kind = "engine" /\ r.pc = "done" /\ ~r.dry_run
    /\ \E id \in keep_ids(r.report.hash_result) :
           /\ id \in Range(semantic_removed(r.report))
           /\ id \in deleted_ids(1)
           /\ id \notin store_ids
    /\ semantic_keep_ids(r.report) # {}
    /\ semantic_keep_ids(r.report) \subseteq store_ids

\* call r raised out of a collection.delete
delete_failed(r) == r.pc = "failed" /\ r.all_remove_ids # <<>>

\* C17: when a delete batch of an apply-mode run fails, the call raises with
\* the store's failure; the batches issued before it are exactly a prefix of the
\* deletion list and stay deleted (the store is the fetched items without
\* them), and no further batch of that call changes the store.
C17_FailedBatchStopsRun ==
    /\ [](\A p \in Callers :
            LET r == runs[p] IN
            delete_failed(r) =>
                /\ r.raised = "StoreError"
                /\ Concat(r.deleted) = SubSeq(r.all_remove_ids, 1, Len(Concat(r.deleted)))
                /\ Len(Concat(r.deleted)) < Len(r.all_remove_ids)
                /\ store = delete(r.before, Concat(r.deleted)))
    /\ [][\A p \in Callers :
            /\ runs[p].pc = "failed" => store' = store
            /\ runs[p].pc = "deleting" /\ store' = store =>
                   /\ runs'[p].pc = "failed"
                   /\ runs'[p].raised = "StoreError"
                   /\ runs'[p].deleted = runs[p].deleted]_vars

\* a run of the pipeline whose second delete call failed: the first batch is
\* gone from the store, the rest of the list is still there
C17_Witness ==
    LET r == runs[1] IN
    /\ delete_failed(r) /\ r.kind = "engine"
    /\ Len(r.deleted) = 1
    /\ Len(store) = Len(r.before) - Len(r.deleted[1])
    /\ \E k \in 1..Len(r.all_remove_ids) : r.all_remove_ids[k] \in store_ids

\* what a call that ended hands to its caller: the report when it returned,
\* the exception alone when it raised
outcome(r) ==
    IF r.pc = "done" THEN [raised |-> "", report |-> <<r.report>>]
    ELSE [raised |-> r.raised, report |-> <<>>]

\* the numbers of deleted ids that the outcome of call r states
deleted_counts_reported(r) ==
    IF outcome(r).report = <<>> THEN {}
    ELSE LET notes == Range(outcome(r).report[1].actions_taken)
         IN  {note[2] : note \in {x \in notes : x[1] = "deleted"}}

\* C18: when a delete batch of an apply-mode run of the pipeline fails after
\* earlier batches went through, what the caller gets states how many ids were
\* deleted before the failure.
C18_ProcessedCountReported ==
    \A p \in Callers :
        LET r == runs[p] IN
        delete_failed(r) /\ r.kind = "engine" /\ Len(r.deleted) >= 1 =>
            Len(Concat(r.deleted)) \in deleted_counts_reported(r)

\* call r raised before it had the collection's items: it ran neither pipeline
fetch_failed(r) == r.pc # "idle" /\ r.kind = ""

\* C19: a call whose fetch from the store fails raises with the store's
\* failure: it returns no report, has issued no delete call, and the store is
\* as it was when the call began.
C19_FetchFailureNoReportNoDelete ==
    \A p \in Callers :
        LET r == runs[p] IN
        fetch_failed(r) =>
            /\ r.pc = "failed"
            /\ outcome(r) = [raised |-> "StoreError", report |-> <<>>]
            /\ r.deleted = <<>> /\ r.all_remove_ids = <<>>
            /\ store = r.before

\* the fetch failed on a store of three items, after an apply-mode run of the
\* pipeline that had returned
C19_Witness ==
    LET r == runs[1] IN
    /\ fetch_failed(r) /\ r.pc = "failed" /\ r.raised = "StoreError"
    /\ Len(store) = 3
    /\ r.deleted = <<>>

\* the embeddings list is shorter than the item list or its vectors differ in length
bad_embeddings(embeddings, n) == Len(embeddings) < n \/ ragged(embeddings)

\* C20: full_dedup called without embeddings, with embeddings of differing
\* dimensionality or with fewer embeddings than items does not raise: it
\* returns a report with the hash result of the whole list and no semantic
\* result.
C20_BadEmbeddingsSkipSemantic ==
    call.op = "full_dedup"
    /\ (call.embeddings = <<>> \/ bad_embeddings(call.embeddings[1], Len(call.contents))) =>
        /\ call.report.raised = ""
        /\ call.report.semantic_result = <<>>
        /\ call.report.hash_result
               = find_duplicates(call.contents, call_ids, call_metadatas, TRUE)

\* the ids of the direct call with every missing one (a None entry, or a
\* position past the end of the list) replaced by the positional item_<index>
backfilled_ids ==
    [k \in 1..Len(call.contents) |->
        IF k <= Len(call.ids) /\ call.ids[k] # NoneId THEN call.ids[k]
        ELSE item_ids(Len(call.contents))[k]]

\* C21: find_duplicates does not fail on missing ids and works as if every
\* item without an id (ids omitted, a None entry, an ids list shorter than
\* contents) had the id item_<index>, every other item keeping its own id and
\* every item being processed.
C21_MissingIdsBackfilled ==
    call.op = "find_duplicates" =>
        /\ call.result.raised = ""
        /\ call.result = find_duplicates(call.contents, backfilled_ids,
                                         call.metadatas, call.normalize)

\* C22: on empty input find_duplicates and full_dedup return, without raising,
\* a result with total_items = 0, unique_items = 0, duplicate_count = 0, no
\* groups and no removed ids; a run of either pipeline on an empty store
\* returns such a result and issues no delete call, in apply mode too.
C22_EmptyInput ==
    /\ \A norm \in BOOLEAN : find_duplicates(<<>>, <<>>, <<>>, norm) = DedupResult(0)
    /\ \A e \in {<<>>, << <<>> >>} :
           full_dedup(<<>>, <<>>, <<>>, e, config.batch_size)
               = FullDedupReport(DedupResult(0), <<>>, <<>>)
    /\ duplicate_count(DedupResult(0)) = 0
    /\ DedupResult(0).duplicate_groups = <<>> /\ DedupResult(0).removed_ids = <<>>
    /\ \A p \in Callers :
           LET r == runs[p] IN
           r.kind # "" /\ r.before = <<>> =>
               /\ r.pc = "done"
               /\ outcome(r) = [raised |-> "",
                                report |-> <<FullDedupReport(DedupResult(0), <<>>, <<>>)>>]
               /\ r.deleted = <<>> /\ r.all_remove_ids = <<>>
               /\ store = <<>>

\* an apply-mode run of the pipeline, semantic phase asked for, returned on
\* an empty store
C22_Witness ==
    LET r == runs[1] IN
    /\ r.kind = "engine" /\ r.include_semantic /\ ~r.dry_run
    /\ r.before = <<>> /\ r.pc = "done"
    /\ r.report.hash_result.total_items = 0
    /\ r.report.hash_result.unique_items = 0

\* C23: find_near_duplicates called with n = 0 or n = 1 embeddings returns,
\* without raising, a result with total_items = n, unique_items = n, no
\* duplicate groups and no removed ids.
C23_DegenerateSemanticInput ==
    call.op = "find_near_duplicates" /\ Len(call.embeddings) <= 1 =>
        /\ call.result.raised = ""
        /\ call.result = [DedupResult(Len(call.embeddings)) EXCEPT
                             !.unique_items = Len(call.embeddings)]

\* C24: for every threshold the caller passes to find_near_duplicates, 0 and 1
\* included, the groups are the components of the relation "cosine similarity
\* >= the passed value"; the configured default is used only when no threshold
\* is passed.
C24_PassedThresholdUsed ==
    call.op = "find_near_duplicates" /\ call.result.raised = "" =>
        LET threshold == IF call.threshold # <<>> THEN call.threshold[1]
                         ELSE semantic_threshold
        IN  \A a, b \in 1..Len(call.embeddings) :
                a # b => (same_near_group(call.result, a, b)
                              <=> b \in component(call.embeddings, threshold, {a}))

\* C25: for every batch_size >= 1 the row-block loop of find_near_duplicates
\* reads each pair (i, j) with i < j exactly once and no pair (i, i) or (j, i),
\* and the result is the one obtained with a single batch of all n items.
C25_BatchedScanEquivalent ==
    call.op = "find_near_duplicates" /\ call.result.raised = "" =>
        LET n == Len(call.embeddings)
            single == find_near_duplicates(call.embeddings, call.ids, call.threshold, n)
        IN  /\ call.result = single
            /\ \A batch_size \in 1..n + 1 :
                   /\ find_near_duplicates(call.embeddings, call.ids, call.threshold,
                                           batch_size) = single
                   /\ NoRepeats(pairs_batches(n, 0, batch_size))
                   /\ Range(pairs_batches(n, 0, batch_size))
                          = {<<i, j>> \in (0..n - 1) \X (0..n - 1) : i < j}

\* four embeddings scanned in two batches of two: one group holds a pair
\* inside the first batch and a pair across the batches
C25_Witness ==
    /\ call.op = "find_near_duplicates" /\ call.result.raised = ""
    /\ config.batch_size = 2
    /\ Len(call.embeddings) = 4
    /\ Len(call.result.duplicate_groups) = 1
    /\ {near_ids[1], near_ids[2], near_ids[3]}
           \subseteq Range(call.result.duplicate_groups[1].ids)
    /\ near_ids[4] \notin Range(call.result.duplicate_groups[1].ids)

\* the "Deleted N" notes among the actions of call r's report, in order
deleted_notes(r) ==
    LET a == r.report.actions_taken
        js == SelectIdx(Len(a), [k \in 1..Len(a) |-> a[k][1] = "deleted"], 1)
    IN  [x \in 1..Len(js) |-> a[js[x]]]

\* the last action of call r's report is the note of n deleted ids
ends_with_deleted_note(r, n) ==
    LET a == r.report.actions_taken
    IN  Len(a) > 0 /\ a[Len(a)] = <<"deleted", n>>

\* C26 as stated: every apply-mode run of dedup_chromadb_collection that
\* returns ends its actions_taken with a note of the number of ids passed to
\* delete, and the note is not there while batches are still to be issued.
C26_EveryApplyRunNotes ==
    \A p \in Callers :
        LET r == runs[p] IN
        r.kind = "engine" /\ ~r.dry_run =>
            /\ r.pc = "deleting" => deleted_notes(r) = <<>>
            /\ r.pc = "done" => ends_with_deleted_note(r, Len(Concat(r.deleted)))

\* C26: an apply-mode run of dedup_chromadb_collection that has ids to delete
\* ends its actions_taken with one note of the number of ids passed to delete,
\* appended only after the last batch was issued; a run with nothing to delete
\* (and a dry run) appends no such note.
C26_NoteAfterAllDeletes ==
    \A p \in Callers :
        LET r == runs[p] IN
        r.kind = "engine" =>
            /\ r.pc = "deleting" => deleted_notes(r) = <<>>
            /\ r.pc = "done" /\ ~r.dry_run /\ r.all_remove_ids # <<>> =>
                   /\ ends_with_deleted_note(r, Len(Concat(r.deleted)))
                   /\ Len(deleted_notes(r)) = 1
                   /\ Concat(r.deleted) = r.all_remove_ids
            /\ r.pc = "done" /\ (r.dry_run \/ r.all_remove_ids = <<>>) =>
                   deleted_notes(r) = <<>>

\* an apply-mode run that returned after two delete calls, its report ending
\* with the note of two deleted ids
C26_Witness ==
    LET r == runs[1] IN
    /\ r.kind = "engine" /\ ~r.dry_run /\ r.pc = "done"
    /\ Len(r.deleted) = 2
    /\ ends_with_deleted_note(r, 2)
    /\ Len(r.report.actions_taken) >= 2

\* the metadatas of the direct call with every None read as an empty dict
metadatas_none_as_empty ==
    [k \in 1..Len(call.metadatas) |->
        IF call.metadatas[k].none THEN EmptyMeta ELSE call.metadatas[k]]

\* C27: find_duplicates accepts items whose metadata is None: it does not
\* raise and its result is the one it gives with {} in place of each None.
C27_NoneMetadataAccepted ==
    call.op = "find_duplicates" =>
        /\ call.result.raised = ""
        /\ call.result = find_duplicates(call.contents, call.ids,
                                         metadatas_none_as_empty, call.normalize)

\* the callers whose call has fetched the items
fetched == {p \in Callers : runs[p].pc # "idle"}

\* the store as the first fetch found it: nothing is ever added, so it is the
\* longest list any call fetched
first_fetched ==
    IF fetched = {} THEN store
    ELSE runs[CHOOSE p \in fetched :
                 \A q \in fetched : Len(runs[q].before) <= Len(runs[p].before)].before

\* the ids a single apply-mode run on the first-fetched store lists for
\* deletion, its semantic phase run if any of the calls asked for it
single_run_removes ==
    LET include_semantic == \E p \in fetched : runs[p].include_semantic
        report == full_dedup(contents_of(first_fetched), ids_of(first_fetched),
                             metadatas_of(first_fetched),
                             IF include_semantic THEN <<embeddings_of(first_fetched)>>
                             ELSE <<>>,
                             config.batch_size)
    IN  all_remove_ids_of(report)

\* C28: two apply-mode runs of dedup_chromadb_collection interleaved at their
\* fetches and delete batches pass to delete only ids that a single apply-mode
\* run on the initial store lists; every other item stays in the store, and
\* when both have returned the store is what that single run leaves.
C28_TwoRunsDeleteWhatOneRunDoes ==
    /\ \A p \in Callers : deleted_ids(p) \subseteq Range(single_run_removes)
    /\ \A k \in 1..Len(first_fetched) :
           first_fetched[k].id \notin Range(single_run_removes)
               => first_fetched[k] \in Range(store)
    /\ (\A p \in Callers : runs[p].pc = "done") =>
           store = delete(first_fetched, single_run_removes)

\* both calls returned; the second fetched after the first call's first batch
\* and before its second, and found something to delete itself
C28_Witness ==
    /\ \A p \in Callers : runs[p].pc = "done"
    /\ Len(runs[1].deleted) = 2
    /\ Len(runs[2].before) = Len(runs[1].before) - 1
    /\ runs[2].deleted # <<>>
    /\ store = delete(first_fetched, single_run_removes)

\* the index reached from x by following parent pointers for this many steps
RECURSIVE follow(_, _, _)
follow(parent, x, steps) ==
    IF steps = 0 THEN x ELSE follow(parent, parent[x], steps - 1)

\* from every index the pointers reach a self-parented root within n steps
forest(parent) ==
    \A x \in DOMAIN parent :
        LET r == follow(parent, x, Cardinality(DOMAIN parent))
        IN  r \in DOMAIN parent /\ parent[r] = r

root_of(parent, x) == follow(parent, x, Cardinality(DOMAIN parent))

\* the set of indices with the root of x
set_of(parent, x) == {y \in DOMAIN parent : root_of(parent, y) = root_of(parent, x)}

\* C29: at every step of find_near_duplicates the parent array is a forest
\* (every index reaches a self-parented root within n steps); on it, find(x)
\* returns the root of x and its path halving leaves every index's root as it
\* was, and union(x, y) leaves a forest in which the sets of x and y are one
\* set and every other set is unchanged.
C29_ParentIsForest ==
    call.op = "scan" =>
        LET parent == call.parent
            N == DOMAIN parent
        IN  /\ forest(parent)
            /\ \A x \in N :
                   LET f == find(parent, x)
                   IN  /\ f.root = root_of(parent, x)
                       /\ forest(f.parent)
                       /\ \A y \in N : root_of(f.parent, y) = root_of(parent, y)
            /\ \A x, y \in N :
                   LET u == union(parent, x, y)
                   IN  /\ forest(u)
                       /\ \A a \in N :
                              set_of(u, a) =
                                  IF a \in set_of(parent, x) \cup set_of(parent, y)
                                  THEN set_of(parent, x) \cup set_of(parent, y)
                                  ELSE set_of(parent, a)
            /\ call.todo = pairs_batches(Len(call.embeddings), 0, config.batch_size)
                   => parent = [x \in N |-> x]
            /\ call.todo = <<>> /\ call.k = 0
                   => parent = scan_batches([x \in N |-> x], call.embeddings,
                                            semantic_threshold, 0, config.batch_size)

\* after the scan an index hangs two pointers below its root, so that find
\* has a path to halve
C29_Witness ==
    /\ call.op = "scan" /\ call.todo = <<>> /\ call.k = 0
    /\ \E x \in DOMAIN call.parent :
           /\ call.parent[x] # x
           /\ call.parent[call.parent[x]] # call.parent[x]
           /\ find(call.parent, x).parent # call.parent

\* items a and b of the list call r fetched stand for each other directly:
\* they have one fingerprint, or both survived the hash phase and their
\* embeddings, compared by r's semantic phase, are at or above the threshold
linked(r, a, b) ==
    LET hash_removed == Range(r.report.hash_result.removed_ids)
    IN  \/ fingerprint(r.before[a]) = fingerprint(r.before[b])
        \/ /\ r.report.semantic_result # <<>>
           /\ r.before[a].id \notin hash_removed
           /\ r.before[b].id \notin hash_removed
           /\ sim_ge(r.before[a].emb, r.before[b].emb, semantic_threshold)

\* the items joined to an item of S by a chain of such links
RECURSIVE linked_class(_, _)
linked_class(r, S) ==
    LET T == S \cup {b \in 1..Len(r.before) : \E a \in S : linked(r, a, b)}
    IN  IF T = S THEN S ELSE linked_class(r, T)

\* C30: after an apply-mode run of dedup_chromadb_collection has returned,
\* every item of the fetched list - so every deleted one - is joined by a chain
\* of links (equal fingerprint, or similarity >= threshold between two
\* hash-phase survivors) to an item still in the store: no class of linked
\* items is deleted whole.
C30_NoContentLost ==
    \A p \in Callers :
        LET r == runs[p] IN
        r.kind = "engine" /\ ~r.dry_run /\ r.pc = "done" =>
            \A k \in 1..Len(r.before) :
                \E m \in linked_class(r, {k}) : r.before[m] \in Range(store)

\* a returned apply-mode run deleted an item that shares its fingerprint with
\* no stored item and was not compared to one: only a chain through the
\* deleted keeper of its hash group joins it to the store
C30_Witness ==
    LET r == runs[1] IN
    /\ r.kind = "engine" /\ ~r.dry_run /\ r.pc = "done"
    /\ \E k \in 1..Len(r.before) :
           /\ r.before[k].id \in Range(r.report.hash_result.removed_ids)
           /\ r.before[k].id \in deleted_ids(1)
           /\ \A m \in 1..Len(r.before) :
                  r.before[m] \in Range(store) => ~linked(r, k, m)
           /\ \E m \in linked_class(r, {k}) : r.before[m] \in Range(store)

====
